---- MODULE Spec2Model ----
(***************************************************************************)
(* Model of the iceberg location scraper (src/src/iceberg.py), of the      *)
(* commands that read what it has stored (src/src/commands, src/src/utils),*)
(* of the API files made from it (src/src/api_generator.py), of the        *)
(* configuration (src/src/config.py) and of the entry point (src/main.py,  *)
(* src/src/cli.py).                                                        *)
(*                                                                         *)
(* The two leaf computations, dms2dec and get_update_datetime, are pure    *)
(* functions; they are operators here, computed the way the code computes  *)
(* them, and so are get_iceberg_details and get_latest_date.  The state of *)
(* the model is a call, what it returned once it has been made (a value or *)
(* a raised exception), and the data file, which the scraper writes and    *)
(* the commands read.                                                      *)
(*                                                                         *)
(* A string is a sequence of one-character strings, "deg" standing for    *)
(* the degree sign.  A float is kept as an exact signed fraction           *)
(* [sign, num, den] (value = sign * num / den, with the sign kept apart as *)
(* the IEEE sign bit is, so that -1 * 0.0 is -0.0).  A date is a triple    *)
(* <<year, month, day>>, a datetime a record with the time of day as well. *)
(***************************************************************************)
EXTENDS Integers, Sequences, FiniteSets, TLC

VARIABLES
    call,       \* the call: [fn |-> name, ...arguments]
    ret,        \* [kind |-> "none"] before the call is made, afterwards its outcome:
                \* [kind |-> "ok", ...] or [kind |-> "error", error |-> name];
                \* for the entry point "return" or "exit", with the exit code
    data_file   \* data/iceberg_location.json: absent, or its text

vars == <<call, ret, data_file>>

(***************************************************************************)
(* Bounds                                                                  *)
(***************************************************************************)
\* every string over Alphabet of at most this length is an input of dms2dec
MaxLen == 4

\* every list of at most this many rows over Rows is an input of
\* get_iceberg_details
MaxRows == 3

\* every list of at most this many rows over PageRows is on a scraped page
MaxPageRows == 3

\* every history of at most this many keys over HistoryKeys is an input of
\* get_latest_date
MaxKeys == 3

(***************************************************************************)
(* Characters                                                              *)
(***************************************************************************)
Digits == {"0", "1", "2", "3", "4", "5", "6", "7", "8", "9"}

\* the characters matched by \s that occur in the inputs
Whitespace == {" ", "\t"}

\* \D : any character that is not a decimal digit
IsDigit(c) == c \in Digits

DigitVal(c) ==
    CASE c = "0" -> 0 [] c = "1" -> 1 [] c = "2" -> 2 [] c = "3" -> 3
      [] c = "4" -> 4 [] c = "5" -> 5 [] c = "6" -> 6 [] c = "7" -> 7
      [] c = "8" -> 8 [] c = "9" -> 9

AllDigits(s) == \A i \in 1..Len(s) : IsDigit(s[i])

RECURSIVE Pow10(_)
Pow10(n) == IF n = 0 THEN 1 ELSE 10 * Pow10(n - 1)

\* the number written by a run of decimal digits
RECURSIVE DigitsVal(_)
DigitsVal(s) ==
    IF Len(s) = 0 THEN 0
    ELSE 10 * DigitsVal(SubSeq(s, 1, Len(s) - 1)) + DigitVal(s[Len(s)])

\* index of the first character of s at or after i that satisfies / fails
\* IsDigit, Len(s) + 1 when there is none
RECURSIVE FirstDigitFrom(_, _)
FirstDigitFrom(s, i) ==
    IF i > Len(s) THEN Len(s) + 1
    ELSE IF IsDigit(s[i]) THEN i ELSE FirstDigitFrom(s, i + 1)

RECURSIVE FirstNonDigitFrom(_, _)
FirstNonDigitFrom(s, i) ==
    IF i > Len(s) THEN Len(s) + 1
    ELSE IF ~IsDigit(s[i]) THEN i ELSE FirstNonDigitFrom(s, i + 1)

(***************************************************************************)
(* The library calls dms2dec makes                                         *)
(***************************************************************************)
\* re.sub(r"\s", "", dms_str)
re_sub_whitespace(s) == SelectSeq(s, LAMBDA c : c \notin Whitespace)

\* re.search("[swSW]", dms_str)
re_search_swSW(s) == \E i \in 1..Len(s) : s[i] \in {"s", "w", "S", "W"}

\* re.split(r"\D+", s, maxsplit): cut s at the first maxsplit maximal runs
\* of non-digits; what follows the last cut is returned whole, uncut
RECURSIVE re_split(_, _)
re_split(s, maxsplit) ==
    LET i == FirstNonDigitFrom(s, 1)
        j == FirstDigitFrom(s, i)
    IN  IF maxsplit = 0 \/ i > Len(s) THEN <<s>>
        ELSE <<SubSeq(s, 1, i - 1)>> \o re_split(SubSeq(s, j, Len(s)), maxsplit - 1)

\* list(filter(len, tokens))
filter_len(tokens) == SelectSeq(tokens, LAMBDA t : Len(t) > 0)

\* int(token): a run of digits, anything else is a ValueError
py_int(t) ==
    IF Len(t) > 0 /\ AllDigits(t)
    THEN [ok |-> TRUE, val |-> DigitsVal(t)]
    ELSE [ok |-> FALSE]

\* float(text) for the texts dms2dec builds: digits [. digits] [(e|E) digits].
\* The value is mant * 10^exp / 10^scale; any other text is a ValueError.
py_float(t) ==
    LET ip == FirstNonDigitFrom(t, 1)                     \* end of integer part
        hasDot == ip <= Len(t) /\ t[ip] = "."
        fp == IF hasDot THEN FirstNonDigitFrom(t, ip + 1) ELSE ip
        intDigits == SubSeq(t, 1, ip - 1)
        fracDigits == IF hasDot THEN SubSeq(t, ip + 1, fp - 1) ELSE <<>>
        expDigits == SubSeq(t, fp + 1, Len(t))
        hasExp == fp <= Len(t)
    IN  IF Len(intDigits) + Len(fracDigits) = 0 THEN [ok |-> FALSE]
        ELSE IF ~hasExp
             THEN [ok |-> TRUE, mant |-> DigitsVal(intDigits \o fracDigits),
                   scale |-> Len(fracDigits), exp |-> 0]
        ELSE IF t[fp] \in {"e", "E"} /\ Len(expDigits) > 0 /\ AllDigits(expDigits)
             THEN [ok |-> TRUE, mant |-> DigitsVal(intDigits \o fracDigits),
                   scale |-> Len(fracDigits), exp |-> DigitsVal(expDigits)]
        ELSE [ok |-> FALSE]

(***************************************************************************)
(* dms2dec                                                                 *)
(***************************************************************************)
\* the number of pieces re.split is allowed to cut off
dms2dec_maxsplit == 4

\* (a missing degree silently defaulted to "0")
dms2dec_numbers_defaulted(stripped) ==
    IF Len(filter_len(re_split(stripped, dms2dec_maxsplit))) = 0
    THEN << <<"0">> >>
    ELSE filter_len(re_split(stripped, dms2dec_maxsplit))

\* numbers = list(filter(len, re.split(r"\D+", dms_str, maxsplit=4)))
dms2dec_numbers(stripped) == filter_len(re_split(stripped, dms2dec_maxsplit))

\* (the two signs exchanged)
dms2dec_sign_swapped(stripped) == IF re_search_swSW(stripped) THEN 1 ELSE -1

\* sign = -1 if re.search("[swSW]", dms_str) else 1
dms2dec_sign(stripped) == IF re_search_swSW(stripped) THEN -1 ELSE 1

dms2dec(dms_str) ==
    LET stripped == re_sub_whitespace(dms_str)
        sign == dms2dec_sign(stripped)
        numbers == dms2dec_numbers(stripped)
        degree == numbers[1]
        minute == IF Len(numbers) >= 2 THEN numbers[2] ELSE <<"0">>
        second == IF Len(numbers) >= 3 THEN numbers[3] ELSE <<"0">>
        frac_seconds == IF Len(numbers) >= 4 THEN numbers[4] ELSE <<"0">>
        d == py_int(degree)
        m == py_float(minute)
        s == py_float(second \o <<".">> \o frac_seconds)
        \* common denominator of degree + minute / 60 + second / 3600
        den == 3600 * Pow10(m.scale) * Pow10(s.scale)
    IN  IF Len(numbers) = 0 THEN [kind |-> "error", error |-> "IndexError"]
        ELSE IF ~d.ok \/ ~m.ok \/ ~s.ok THEN [kind |-> "error", error |-> "ValueError"]
        ELSE [kind |-> "ok", sign |-> sign,
              num |-> d.val * den
                      + m.mant * Pow10(m.exp) * 60 * Pow10(s.scale)
                      + s.mant * Pow10(s.exp) * Pow10(m.scale),
              den |-> den]

(***************************************************************************)
(* Inputs of dms2dec                                                       *)
(***************************************************************************)
Alphabet == {"0", "1", "5", "N", "S", "w", "E", "deg", "'", "\"", ".", " "}

\* the docstring's four examples, the strings of the tests' fixtures, a bare
\* degree, strings without a digit, and strings with more than four digit runs
Examples == {
    <<"4", "8", "deg", "5", "3", "'", "1", "0", ".", "1", "8", "\"", "N">>,
    <<"2", "deg", "2", "0", "'", "3", "5", ".", "0", "9", "\"", "E">>,
    <<"4", "8", "deg", "5", "3", "'", "1", "0", ".", "1", "8", "\"", "S">>,
    <<"2", "deg", "2", "0", "'", "3", "5", ".", "0", "9", "\"", "W">>,
    <<"7", "5", "deg", "2", "5", "'", "S">>,
    <<"3", "9", "deg", "5", "0", "'", "W">>,
    <<"7", "0", "deg", "7", "'", "S">>,
    <<"1", "5", "6", "deg", "2", "7", "'", "E">>,
    <<"4", "8">>,
    <<>>,
    <<"a", "b", "c">>,
    <<"1", "deg", "2", "'", "3", ".", "4", "\"", "5", "x", "6">> }

\* a string whose text after the fourth cut reads as an exponent to float()
ExponentExamples == { <<"W", "1", "deg", "2", "'", "3", ".", "4", "E", "1">> }

InsertAt(s, i, c) == SubSeq(s, 1, i) \o <<c>> \o SubSeq(s, i + 1, Len(s))

RemoveAt(s, i) == SubSeq(s, 1, i - 1) \o SubSeq(s, i + 1, Len(s))

\* the examples, and each example with one character inserted or removed
Edits(s) ==
    {s} \cup { InsertAt(s, i, c) : i \in 0..Len(s), c \in Alphabet }
        \cup { RemoveAt(s, i) : i \in 1..Len(s) }

Strings(n) == UNION { [1..k -> Alphabet] : k \in 0..n }

DmsInputs ==
    Strings(MaxLen) \cup UNION { Edits(e) : e \in Examples } \cup ExponentExamples

(***************************************************************************)
(* The calendar arithmetic of datetime (proleptic Gregorian calendar)      *)
(***************************************************************************)
MINYEAR == 1

MAXYEAR == 9999

\* datetime.max.toordinal(), the ordinal of 9999-12-31
MAXORDINAL == 3652059

\* the largest number of days a timedelta holds
MAX_DELTA_DAYS == 999999999

is_leap(year) == year % 4 = 0 /\ (year % 100 # 0 \/ year % 400 = 0)

DAYS_IN_MONTH == <<31, 28, 31, 30, 31, 30, 31, 31, 30, 31, 30, 31>>

DAYS_BEFORE_MONTH == <<0, 31, 59, 90, 120, 151, 181, 212, 243, 273, 304, 334>>

days_in_month(year, month) ==
    IF month = 2 /\ is_leap(year) THEN 29 ELSE DAYS_IN_MONTH[month]

\* number of days before January 1st of year
days_before_year(year) ==
    LET y == year - 1
    IN  y * 365 + (y \div 4) - (y \div 100) + (y \div 400)

\* number of days in year preceding the first day of month
days_before_month(year, month) ==
    DAYS_BEFORE_MONTH[month] + (IF month > 2 /\ is_leap(year) THEN 1 ELSE 0)

\* date.toordinal(): 0001-01-01 is day 1
ymd2ord(year, month, day) ==
    days_before_year(year) + days_before_month(year, month) + day

\* date.fromordinal(n)
ord2ymd(ordinal) ==
    LET n0 == ordinal - 1
        n400 == n0 \div 146097
        r400 == n0 % 146097
        n100 == r400 \div 36524
        r100 == r400 % 36524
        n4 == r100 \div 1461
        r4 == r100 % 1461
        n1 == r4 \div 365
        n == r4 % 365
        year == n400 * 400 + 1 + n100 * 100 + n4 * 4 + n1
        leapyear == n1 = 3 /\ (n4 # 24 \/ n100 = 3)
        month0 == (n + 50) \div 32
        preceding0 == DAYS_BEFORE_MONTH[month0]
                        + (IF month0 > 2 /\ leapyear THEN 1 ELSE 0)
        month == IF preceding0 > n THEN month0 - 1 ELSE month0
        preceding == IF preceding0 > n
                     THEN preceding0 - (DAYS_IN_MONTH[month]
                                         + (IF month = 2 /\ leapyear THEN 1 ELSE 0))
                     ELSE preceding0
    IN  IF n1 = 4 \/ n100 = 4 THEN <<year - 1, 12, 31>>
        ELSE <<year, month, n - preceding + 1>>

\* revised_date.timetuple().tm_yday
tm_yday(date) == days_before_month(date.year, date.month) + date.day

\* datetime(year, 1, 1) + timedelta(days): the date reached, or the error raised
datetime_add_days(year, days) ==
    LET ordinal == ymd2ord(year, 1, 1) + days
    IN  IF year < MINYEAR \/ year > MAXYEAR
        THEN [kind |-> "error", error |-> "ValueError"]
        ELSE IF days > MAX_DELTA_DAYS \/ days < -MAX_DELTA_DAYS
        THEN [kind |-> "error", error |-> "OverflowError"]
        ELSE IF ordinal < 1 \/ ordinal > MAXORDINAL
        THEN [kind |-> "error", error |-> "OverflowError"]
        ELSE [kind |-> "ok", date |-> ord2ymd(ordinal)]

DigitChar(n) == <<"0", "1", "2", "3", "4", "5", "6", "7", "8", "9">>[n + 1]

\* (no padding to two digits)
TwoDigits_unpadded(n) ==
    IF n < 10 THEN <<DigitChar(n)>> ELSE <<DigitChar(n \div 10), DigitChar(n % 10)>>

\* a number below 100 as two decimal digits
TwoDigits(n) == <<DigitChar(n \div 10), DigitChar(n % 10)>>

\* date.strftime("%m/%d/%y")
strftime_mdy(date) ==
    TwoDigits(date[2]) \o <<"/">> \o TwoDigits(date[3]) \o <<"/">>
        \o TwoDigits(date[1] % 100)

(***************************************************************************)
(* get_update_datetime                                                     *)
(***************************************************************************)
\* (the boundary day taken as a day of the year before)
get_update_datetime_year_ge(days, revised_date) ==
    IF days >= tm_yday(revised_date) THEN revised_date.year - 1 ELSE revised_date.year

\* (the year never stepped back)
get_update_datetime_year_same(days, revised_date) == revised_date.year

\* (the year always stepped back)
get_update_datetime_year_before(days, revised_date) == revised_date.year - 1

\* the year the day number is counted in
get_update_datetime_year(days, revised_date) ==
    IF days > tm_yday(revised_date) THEN revised_date.year - 1 ELSE revised_date.year

\* (January 1 taken as day 0)
get_update_datetime_date_off_by_one(days, revised_date) ==
    datetime_add_days(get_update_datetime_year(days, revised_date), days)

\* (a day number below 1 taken as day 1)
get_update_datetime_date_clamped(days, revised_date) ==
    datetime_add_days(get_update_datetime_year(days, revised_date),
                      IF days < 1 THEN 0 ELSE days - 1)

\* date = datetime(revised_year, 1, 1) + timedelta(days - 1)
get_update_datetime_date(days, revised_date) ==
    datetime_add_days(get_update_datetime_year(days, revised_date), days - 1)

get_update_datetime(days, revised_date) ==
    LET date == get_update_datetime_date(days, revised_date)
    IN  IF date.kind = "ok"
        THEN [kind |-> "ok", str |-> strftime_mdy(date.date)]
        ELSE date

(***************************************************************************)
(* Inputs of get_update_datetime                                           *)
(***************************************************************************)
\* how far below 1 and above 366 the day numbers go
MaxDaysOut == 10

\* every day of these years is a revised date
RevisedYears == {2000, 2001, 2020, 2021}

\* the first and last years "%y" parses to
RevisedYearEnds == {1969, 2068}

\* the time of day of the docstring's and the spec's revised dates, and the ends
RevisedTimes == {<<0, 0, 0>>, <<10, 0, 0>>, <<23, 59, 59>>}

datetime(y, m, d, t) ==
    [year |-> y, month |-> m, day |-> d, hour |-> t[1], minute |-> t[2], second |-> t[3]]

RevisedDates ==
    { datetime(y, m, d, <<10, 0, 0>>) :
        y \in RevisedYears, m \in 1..12, d \in 1..31 }
    \cup { datetime(y, md[1], md[2], t) :
             y \in RevisedYearEnds, md \in {<<1, 1>>, <<2, 12>>, <<12, 31>>},
             t \in RevisedTimes }

ValidRevisedDates == { r \in RevisedDates : r.day <= days_in_month(r.year, r.month) }

\* day numbers far outside a year, up to the ends of what timedelta and
\* datetime hold
FarDays == {-1000000000, -999999998, -800000, -700000, 2900000, 3000000,
            999999999, 1000000001}

DayNumbers == (1 - MaxDaysOut)..(366 + MaxDaysOut) \cup FarDays

(***************************************************************************)
(* The scraped rows and get_iceberg_details                                *)
(*                                                                         *)
(* A row is the list of the non-empty cell texts of one table row, as      *)
(* read_current_iceberg_location returns it (the header row removed): the  *)
(* name of the iceberg, two DMS strings and the day of the year of the     *)
(* observation.  A dict is a record, its keys the fields of the record.    *)
(***************************************************************************)
Row_a23a ==
    << <<"a", "2", "3", "a">>,
       <<"3", "9", "deg", "5", "0", "'", "W">>,
       <<"7", "5", "deg", "2", "5", "'", "S">>,
       <<"0", "4", "0">> >>

\* observed on a day of the year before the revised date's
Row_d15a ==
    << <<"d", "1", "5", "a">>,
       <<"1", "5", "6", "deg", "2", "7", "'", "E">>,
       <<"7", "0", "deg", "7", "'", "S">>,
       <<"3", "6", "0">> >>

\* a row whose day cell was empty and has been dropped
Row_b22a ==
    << <<"b", "2", "2", "a">>,
       <<"1", "0", "5", "deg", "1", "'", "W">>,
       <<"7", "4", "deg", "9", "'", "S">> >>

\* a row whose first DMS cell holds no digit
Row_no_digits ==
    << <<"c", "1", "8", "b">>,
       <<"W">>,
       <<"7", "0", "deg", "7", "'", "S">>,
       <<"0", "4", "1">> >>

\* a row whose day cell is not a number
Row_bad_day ==
    << <<"c", "3", "4">>,
       <<"3", "9", "deg", "5", "0", "'", "W">>,
       <<"7", "5", "deg", "2", "5", "'", "S">>,
       <<"n", "/", "a">> >>

Rows == {Row_a23a, Row_d15a, Row_b22a, Row_no_digits, Row_bad_day}

\* the row lists of at most n rows over a set of rows
RowLists(rows, n) == UNION { [1..k -> rows] : k \in 0..n }

\* the revised dates of the scraped pages: two times of one day and the
\* day after
PageRevisedDates ==
    { datetime(2021, 2, 12, <<10, 0, 0>>),
      datetime(2021, 2, 12, <<23, 59, 59>>),
      datetime(2021, 2, 13, <<10, 0, 0>>) }

\* the one element of a set of one element; { e(x) : x \in {v} } computes
\* v once for all its uses in e
TheOne(S) == CHOOSE x \in S : TRUE

\* the dict of a row whose day, longitude, latitude and date of observation
\* have been computed, or the first of their exceptions
get_iceberg_details_dict(row, longitude, lattitude, recent_observation) ==
    IF longitude.kind = "error" THEN longitude
    ELSE IF lattitude.kind = "error" THEN lattitude
    ELSE IF recent_observation.kind = "error" THEN recent_observation
    ELSE [kind |-> "ok",
          dict |-> [iceberg |-> row[1],
                    dms_longitude |-> row[2],
                    dms_lattitude |-> row[3],
                    longitude |-> [sign |-> longitude.sign,
                                   num |-> longitude.num, den |-> longitude.den],
                    lattitude |-> [sign |-> lattitude.sign,
                                   num |-> lattitude.num, den |-> lattitude.den],
                    recent_observation |-> recent_observation.str]]

\* the dict get_iceberg_details appends for one row, or the exception the
\* row raises
get_iceberg_details_record(row, revised_date) ==
    LET observation_date ==
            IF Len(row) >= 4 THEN py_int(row[4]) ELSE [ok |-> TRUE, val |-> 0]
    IN  IF ~observation_date.ok THEN [kind |-> "error", error |-> "ValueError"]
        ELSE IF Len(row) < 3 THEN [kind |-> "error", error |-> "IndexError"]
        ELSE TheOne({ get_iceberg_details_dict(row, longitude, lattitude,
                                               recent_observation) :
                        longitude \in {dms2dec(row[2])},
                        lattitude \in {dms2dec(row[3])},
                        recent_observation \in
                            {get_update_datetime(observation_date.val, revised_date)} })

\* the loop of get_iceberg_details from the row at index on, result being
\* the list so far (index counts from 0 as enumerate does)
RECURSIVE get_iceberg_details_from(_, _, _, _)
get_iceberg_details_from(location_data, revised_date, index, result) ==
    IF index >= Len(location_data) THEN [kind |-> "ok", list |-> result]
    ELSE IF index = 0
         THEN get_iceberg_details_from(location_data, revised_date, index + 1, result)
    ELSE TheOne({ IF record.kind = "error" THEN record
                  ELSE get_iceberg_details_from(location_data, revised_date, index + 1,
                                                Append(result, record.dict)) :
                    record \in {get_iceberg_details_record(location_data[index + 1],
                                                           revised_date)} })

get_iceberg_details(location_data, revised_date) ==
    get_iceberg_details_from(location_data, revised_date, 0, <<>>)

(***************************************************************************)
(* The data file and save_data_as_file                                     *)
(*                                                                         *)
(* The data file is absent or holds a text.  A text is empty, or not JSON, *)
(* or the JSON null, or a JSON object given by its members in the order    *)
(* they are written.  A value is None or a dict; a dict is the list of its *)
(* items in insertion order, no key twice.                                 *)
(***************************************************************************)
None == [type |-> "None"]

dict(items) == [type |-> "dict", items |-> items]

NoFile == [exists |-> FALSE]

FileOf(text) == [exists |-> TRUE, text |-> text]

EmptyText == [form |-> "empty"]

InvalidText == [form |-> "invalid"]

NullText == [form |-> "null"]

ObjectText(members) == [form |-> "object", members |-> members]

dict_keys(d) == [i \in 1..Len(d.items) |-> d.items[i].key]

dict_contains(d, key) == \E i \in 1..Len(d.items) : d.items[i].key = key

\* d[key] for a key of d
dict_getitem(d, key) ==
    d.items[CHOOSE i \in 1..Len(d.items) : d.items[i].key = key].value

\* d[key] = value: a key d has keeps its place, a new key goes last
dict_setitem(d, key, value) ==
    IF dict_contains(d, key)
    THEN dict([i \in 1..Len(d.items) |->
                  IF d.items[i].key = key
                  THEN [key |-> key, value |-> value] ELSE d.items[i]])
    ELSE dict(Append(d.items, [key |-> key, value |-> value]))

\* the dict of the first n members of an object, a repeated name keeping
\* its last value
RECURSIVE json_object(_, _)
json_object(members, n) ==
    IF n = 0 THEN dict(<<>>)
    ELSE dict_setitem(json_object(members, n - 1), members[n].key, members[n].value)

json_loads(text) ==
    CASE text.form = "object" ->
            [kind |-> "ok", value |-> json_object(text.members, Len(text.members))]
      [] text.form = "null" -> [kind |-> "ok", value |-> None]
      [] OTHER -> [kind |-> "error", error |-> "JSONDecodeError"]

json_dumps(d) == ObjectText(d.items)

\* (the file written anew with the one entry)
save_data_as_file_replacing(location_details, revised_date, file) ==
    LET formatted_date ==
            strftime_mdy(<<revised_date.year, revised_date.month, revised_date.day>>)
    IN  [kind |-> "ok",
         file |-> FileOf(json_dumps(dict_setitem(dict(<<>>), formatted_date,
                                                 location_details)))]

\* (the file truncated before its text is parsed)
save_data_as_file_truncating(location_details, revised_date, file) ==
    LET formatted_date ==
            strftime_mdy(<<revised_date.year, revised_date.month, revised_date.day>>)
        loaded == json_loads(file.text)
    IN  IF ~file.exists
        THEN [kind |-> "error", error |-> "UnsupportedOperation",
              file |-> FileOf(EmptyText)]
        ELSE IF file.text = EmptyText
        THEN [kind |-> "ok",
              file |-> FileOf(json_dumps(dict_setitem(dict(<<>>), formatted_date,
                                                      location_details)))]
        ELSE IF loaded.kind = "error"
        THEN [kind |-> "error", error |-> loaded.error, file |-> FileOf(EmptyText)]
        ELSE IF loaded.value.type # "dict"
        THEN [kind |-> "error", error |-> "TypeError", file |-> FileOf(EmptyText)]
        ELSE [kind |-> "ok",
              file |-> FileOf(json_dumps(dict_setitem(loaded.value, formatted_date,
                                                      location_details)))]

\* the outcome of save_data_as_file and the data file it leaves
save_data_as_file(location_details, revised_date, file) ==
    LET formatted_date ==
            strftime_mdy(<<revised_date.year, revised_date.month, revised_date.day>>)
        loaded == json_loads(file.text)
    IN  IF ~file.exists
        \* open(data_file, "w") creates the file, which cannot be read
        THEN [kind |-> "error", error |-> "UnsupportedOperation",
              file |-> FileOf(EmptyText)]
        ELSE IF file.text = EmptyText
        THEN [kind |-> "ok",
              file |-> FileOf(json_dumps(dict_setitem(dict(<<>>), formatted_date,
                                                      location_details)))]
        ELSE IF loaded.kind = "error"
        THEN [kind |-> "error", error |-> loaded.error, file |-> file]
        ELSE IF loaded.value.type # "dict"
        THEN [kind |-> "error", error |-> "TypeError", file |-> file]
        ELSE [kind |-> "ok",
              file |-> FileOf(json_dumps(dict_setitem(loaded.value, formatted_date,
                                                      location_details)))]

(***************************************************************************)
(* collect_iceberg_data                                                    *)
(*                                                                         *)
(* What read_current_iceberg_location does is an input: it raises, or      *)
(* finds no revised date, or returns the rows and the revised date.        *)
(***************************************************************************)
PageRaises == [outcome |-> "raise"]

PageNoDate == [outcome |-> "no_date"]

PageOf(rows, revised_date) ==
    [outcome |-> "page", rows |-> rows, revised_date |-> revised_date]

\* what collect_iceberg_data returns after get_iceberg_details and
\* save_data_as_file have ended as given
collect_iceberg_data_saved(details, saved) ==
    [value |-> saved.kind = "ok", file |-> saved.file, saves |-> 1,
     details |-> details.kind, saved |-> saved.kind]

\* (True as soon as the page has a revised date and rows)
collect_iceberg_data_hiding_failure(page, file) ==
    IF page.outcome = "page" /\ Len(page.rows) > 0
    THEN TheOne({ [value |-> TRUE, file |-> saved.file, saves |-> 1,
                   details |-> "ok", saved |-> saved.kind] :
                    saved \in {save_data_as_file(<<>>, page.revised_date, file)} })
    ELSE [value |-> FALSE, file |-> file, saves |-> 0,
          details |-> "none", saved |-> "none"]

\* the value collect_iceberg_data returns, the data file it leaves, how
\* often it called save_data_as_file, and how get_iceberg_details and
\* save_data_as_file ended ("none" when not called)
collect_iceberg_data(page, file) ==
    IF page.outcome = "page" /\ Len(page.rows) > 0
    THEN TheOne({ IF details.kind = "error"
                  THEN [value |-> FALSE, file |-> file, saves |-> 0,
                        details |-> "error", saved |-> "none"]
                  ELSE TheOne({ collect_iceberg_data_saved(details, saved) :
                                  saved \in {save_data_as_file(details.list,
                                                               page.revised_date, file)} }) :
                    details \in {get_iceberg_details(page.rows, page.revised_date)} })
    ELSE [value |-> FALSE, file |-> file, saves |-> 0,
          details |-> "none", saved |-> "none"]

\* run_scraper returns what collect_iceberg_data returns
run_scraper(page, file) == collect_iceberg_data(page, file)

(***************************************************************************)
(* load_iceberg_data and get_latest_date                                   *)
(***************************************************************************)
\* a message, given by its consecutive pieces
message(pieces) == [type |-> "str", pieces |-> pieces]

\* (a file that does not parse taken as an empty history)
load_iceberg_data_lenient(file) ==
    LET loaded == json_loads(file.text)
    IN  IF ~file.exists
        THEN [data |-> None,
              error |-> message(<<"No data file found", ". Run 'python main.py scrape' first.">>)]
        ELSE IF loaded.kind = "ok"
        THEN [data |-> loaded.value, error |-> None]
        ELSE [data |-> dict(<<>>), error |-> None]

\* the pair (data, error) load_iceberg_data returns
load_iceberg_data(file) ==
    LET loaded == json_loads(file.text)
    IN  IF ~file.exists
        THEN [data |-> None,
              error |-> message(<<"No data file found", ". Run 'python main.py scrape' first.">>)]
        ELSE IF loaded.kind = "ok"
        THEN [data |-> loaded.value, error |-> None]
        ELSE [data |-> None, error |-> message(<<"Error reading data: ", loaded.error>>)]

\* the characters of the keys, in the order of their code points
CodePoints ==
    <<" ", "/", "0", "1", "2", "3", "4", "5", "6", "7", "8", "9",
      "U", "a", "e", "k", "l", "n", "o", "s", "t", "w">>

ord(c) == CHOOSE i \in 1..Len(CodePoints) : CodePoints[i] = c

\* a < b as Python compares two strings
str_lt(a, b) ==
    \E i \in 1..(Len(a) + 1) :
        /\ \A j \in 1..(i - 1) : j <= Len(b) /\ a[j] = b[j]
        /\ i <= Len(b)
        /\ i > Len(a) \/ ord(a[i]) < ord(b[i])

\* sorted(s) for a list of strings: ascending, equal strings in the order
\* they have in s
sorted(s) ==
    TheOne({ [r \in 1..Len(s) |-> s[CHOOSE i \in 1..Len(s) : rank[i] = r]] :
               rank \in {[i \in 1..Len(s) |->
                            1 + Cardinality({ j \in 1..Len(s) :
                                                \/ str_lt(s[j], s[i])
                                                \/ ~str_lt(s[i], s[j]) /\ j < i })]} })

\* datetime.strptime(d, "%m/%d/%y"): the date, or ValueError
strptime_mdy(d) ==
    LET slashes == { i \in 1..Len(d) : d[i] = "/" }
        s1 == CHOOSE i \in slashes : \A j \in slashes : i <= j
        s2 == CHOOSE i \in slashes : \A j \in slashes : j <= i
        m == SubSeq(d, 1, s1 - 1)
        dd == SubSeq(d, s1 + 1, s2 - 1)
        y == SubSeq(d, s2 + 1, Len(d))
        \* %d also takes a space and a digit
        day == IF Len(dd) = 2 /\ dd[1] = " " THEN <<dd[2]>> ELSE dd
        month_ok == Len(m) \in 1..2 /\ AllDigits(m) /\ DigitsVal(m) \in 1..12
        day_ok == Len(day) \in 1..2 /\ AllDigits(day) /\ DigitsVal(day) \in 1..31
        year_ok == Len(y) = 2 /\ AllDigits(y)
        \* %y: 69 to 99 are 1969 to 1999, 00 to 68 are 2000 to 2068
        year == IF DigitsVal(y) >= 69 THEN 1900 + DigitsVal(y) ELSE 2000 + DigitsVal(y)
    IN  IF /\ Cardinality(slashes) = 2
           /\ month_ok /\ day_ok /\ year_ok
           /\ DigitsVal(day) <= days_in_month(year, DigitsVal(m))
        THEN [kind |-> "ok", date |-> <<year, DigitsVal(m), DigitsVal(day)>>]
        ELSE [kind |-> "error", error |-> "ValueError"]

\* date a < date b
date_lt(a, b) ==
    \/ a[1] < b[1]
    \/ a[1] = b[1] /\ a[2] < b[2]
    \/ a[1] = b[1] /\ a[2] = b[2] /\ a[3] < b[3]

\* s.sort(key=lambda x: x[1]) for a list of pairs of a key and its
\* datetime: ascending by datetime, pairs of one datetime in the order they
\* have in s
sort_by_datetime(s) ==
    TheOne({ [r \in 1..Len(s) |-> s[CHOOSE i \in 1..Len(s) : rank[i] = r]] :
               rank \in {[i \in 1..Len(s) |->
                            1 + Cardinality({ j \in 1..Len(s) :
                                                \/ date_lt(s[j].dt, s[i].dt)
                                                \/ ~date_lt(s[i].dt, s[j].dt) /\ j < i })]} })

Unknown == <<"U", "n", "k", "n", "o", "w", "n">>

\* (the greatest key as a string, whether or not the keys are dates)
get_latest_date_lexicographic(data) ==
    IF data.type = "None" \/ Len(data.items) = 0 THEN Unknown
    ELSE LET dates == sorted(dict_keys(data))
         IN  dates[Len(dates)]

get_latest_date(data) ==
    IF data.type = "None" \/ Len(data.items) = 0 THEN Unknown
    ELSE LET dates == sorted(dict_keys(data))
             dates_with_dt ==
                 sort_by_datetime([i \in 1..Len(dates) |->
                     [d |-> dates[i], dt |-> strptime_mdy(dates[i]).date]])
         IN  IF \A i \in 1..Len(dates) : strptime_mdy(dates[i]).kind = "ok"
             THEN dates_with_dt[Len(dates_with_dt)].d
             ELSE dates[Len(dates)]

(***************************************************************************)
(* The utilities behind the commands                                       *)
(***************************************************************************)
\* s.strip()
RECURSIVE strip(_)
strip(s) ==
    IF Len(s) > 0 /\ s[1] \in Whitespace THEN strip(Tail(s))
    ELSE IF Len(s) > 0 /\ s[Len(s)] \in Whitespace THEN strip(SubSeq(s, 1, Len(s) - 1))
    ELSE s

NotAvailable == <<"N", "/", "A">>

\* iceberg.get(key, default) for the keys show_animations reads
get_iceberg(iceberg) == IF "iceberg" \in DOMAIN iceberg THEN iceberg.iceberg ELSE <<>>

get_dms_latitude(iceberg) ==
    IF "dms_latitude" \in DOMAIN iceberg THEN iceberg.dms_latitude ELSE NotAvailable

get_dms_longitude(iceberg) ==
    IF "dms_longitude" \in DOMAIN iceberg THEN iceberg.dms_longitude ELSE NotAvailable

\* what show_animations returns and the lines it prints, one for each
\* iceberg of the latest entry that has a name
show_animations(file) ==
    LET loaded == load_iceberg_data(file)
        data == loaded.data
        latest_date == get_latest_date(data)
        current_icebergs == dict_getitem(data, latest_date)
        named == SelectSeq(current_icebergs,
                           LAMBDA iceberg : Len(strip(get_iceberg(iceberg))) > 0)
    IN  IF loaded.error.type # "None" \/ data.type = "None"
        THEN [value |-> FALSE, lines |-> <<>>]
        ELSE IF ~dict_contains(data, latest_date) \/ Len(current_icebergs) = 0
        THEN [value |-> FALSE, lines |-> <<>>]
        ELSE [value |-> TRUE,
              lines |-> [i \in 1..Len(named) |->
                            [iceberg_name |-> strip(get_iceberg(named[i])),
                             lat |-> get_dms_latitude(named[i]),
                             lon |-> get_dms_longitude(named[i])]]]

show_info(file) ==
    LET loaded == load_iceberg_data(file)
    IN  loaded.error.type = "None" /\ loaded.data.type # "None"

generate_map(file) == file.exists

\* create_api_endpoints returns early without a data file, and raises on a
\* file that is not JSON, on null and on an object without members
generate_api(file) ==
    \/ ~file.exists
    \/ LET loaded == json_loads(file.text)
       IN  /\ loaded.kind = "ok"
           /\ loaded.value.type = "dict"
           /\ Len(loaded.value.items) > 0

(***************************************************************************)
(* create_api_endpoints                                                    *)
(*                                                                         *)
(* The files under api/ are written and never read: what is written to     *)
(* api/latest.json and api/recent.json is part of the outcome.  The        *)
(* entries of a history are lists of records.                              *)
(***************************************************************************)
\* how many dates api/recent.json holds at most
RECENT_DATES == 30

\* datetime(2000 + int(year), int(month), int(day)) of the three pieces of
\* date_str.split('/'), or the ValueError of the unpacking, of int or of
\* datetime
api_datetime(date_str) ==
    LET slashes == { i \in 1..Len(date_str) : date_str[i] = "/" }
        s1 == CHOOSE i \in slashes : \A j \in slashes : i <= j
        s2 == CHOOSE i \in slashes : \A j \in slashes : j <= i
        month == py_int(SubSeq(date_str, 1, s1 - 1))
        day == py_int(SubSeq(date_str, s1 + 1, s2 - 1))
        year == py_int(SubSeq(date_str, s2 + 1, Len(date_str)))
    IN  IF /\ Cardinality(slashes) = 2
           /\ month.ok /\ day.ok /\ year.ok
           /\ 2000 + year.val <= MAXYEAR
           /\ month.val \in 1..12
           /\ day.val \in 1..days_in_month(2000 + year.val, month.val)
        THEN [kind |-> "ok", date |-> <<2000 + year.val, month.val, day.val>>]
        ELSE [kind |-> "error", error |-> "ValueError"]

\* the key of api/latest.json: the last key by date, or the greatest key as
\* a string when a key is no date
api_latest_date(iceberg_data) ==
    TheOne({ IF \A i \in 1..Len(parsed) : parsed[i].dt.kind = "ok"
             THEN TheOne({ dates_with_dt[Len(dates_with_dt)].d :
                             dates_with_dt \in
                                {sort_by_datetime([i \in 1..Len(parsed) |->
                                     [d |-> parsed[i].d, dt |-> parsed[i].dt.date]])} })
             ELSE TheOne({ keys[Len(keys)] : keys \in {sorted(dict_keys(iceberg_data))} }) :
               parsed \in {[i \in 1..Len(iceberg_data.items) |->
                              [d |-> iceberg_data.items[i].key,
                               dt |-> api_datetime(iceberg_data.items[i].key)]]} })

\* the dict written to api/recent.json
api_recent(iceberg_data) ==
    TheOne({ dict([i \in 1..Len(recent_dates) |->
                     [key |-> recent_dates[i],
                      value |-> dict_getitem(iceberg_data, recent_dates[i])]]) :
               recent_dates \in
                  { IF Len(iceberg_data.items) > RECENT_DATES
                    THEN SubSeq(keys, Len(keys) - RECENT_DATES + 1, Len(keys))
                    ELSE keys : keys \in {sorted(dict_keys(iceberg_data))} } })

\* how create_api_endpoints ends, the key of api/latest.json and the dict
\* of api/recent.json (None when the file is not written)
create_api_endpoints(file) ==
    IF ~file.exists
    THEN [kind |-> "ok", latest |-> None, recent |-> None]
    ELSE TheOne({
            IF loaded.kind = "error"
            THEN [kind |-> "error", error |-> loaded.error,
                  latest |-> None, recent |-> None]
            ELSE IF loaded.value.type # "dict"
            \* None has no values()
            THEN [kind |-> "error", error |-> "AttributeError",
                  latest |-> None, recent |-> None]
            ELSE IF Len(loaded.value.items) = 0
            \* latest_data is not bound when the history is empty
            THEN [kind |-> "error", error |-> "UnboundLocalError",
                  latest |-> None, recent |-> None]
            ELSE [kind |-> "ok", latest |-> api_latest_date(loaded.value),
                  recent |-> api_recent(loaded.value)] :
            loaded \in {json_loads(file.text)} })

(***************************************************************************)
(* get_config                                                              *)
(*                                                                         *)
(* The environment gives each of the five variables get_config reads as    *)
(* unset or as a text.  Of BASE_CONFIG the model keeps the keys that       *)
(* get_config can replace and log_file; the other keys are copied as they  *)
(* are.                                                                    *)
(***************************************************************************)
Unset == [set |-> FALSE]

SetTo(value) == [set |-> TRUE, value |-> value]

BASE_CONFIG ==
    [iceberg_url |-> <<"h", "t", "t", "p", "s", ":", "/", "/", "w", "w", "w", ".", "s",
                      "c", "p", ".", "b", "y", "u", ".", "e", "d", "u", "/", "c", "u",
                      "r", "r", "e", "n", "t", "_", "i", "c", "e", "b", "e", "r", "g",
                      "s", ".", "h", "t", "m", "l">>,
     output_file |-> <<"i", "c", "e", "b", "e", "r", "g", "_", "l", "o", "c", "a", "t",
                      "i", "o", "n", ".", "j", "s", "o", "n">>,
     log_file |-> <<"i", "c", "e", "b", "e", "r", "g", "_", "s", "c", "r", "a", "p",
                   "e", "r", ".", "l", "o", "g">>,
     request_timeout |-> 30,
     log_level |-> <<"I", "N", "F", "O">>,
     backup_enabled |-> TRUE]

UpperCase == <<"A", "B", "C", "D", "E", "F", "G", "H", "I", "J", "K", "L", "M",
               "N", "O", "P", "Q", "R", "S", "T", "U", "V", "W", "X", "Y", "Z">>

LowerCase == <<"a", "b", "c", "d", "e", "f", "g", "h", "i", "j", "k", "l", "m",
               "n", "o", "p", "q", "r", "s", "t", "u", "v", "w", "x", "y", "z">>

\* value.lower()
lower(value) ==
    [i \in 1..Len(value) |->
        IF \E k \in 1..Len(UpperCase) : UpperCase[k] = value[i]
        THEN LowerCase[CHOOSE k \in 1..Len(UpperCase) : UpperCase[k] = value[i]]
        ELSE value[i]]

\* int(value) for a text of the environment: whitespace around it is
\* dropped, a sign may come first, and single underscores may stand between
\* digits; anything else is a ValueError
config_int(value) ==
    LET text == strip(value)
        signed == Len(text) > 0 /\ text[1] \in {"+", "-"}
        body == IF signed THEN Tail(text) ELSE text
        digits == SelectSeq(body, IsDigit)
    IN  IF /\ Len(body) > 0
           /\ \A i \in 1..Len(body) : IsDigit(body[i]) \/ body[i] = "_"
           /\ IsDigit(body[1]) /\ IsDigit(body[Len(body)])
           /\ \A i \in 1..(Len(body) - 1) : ~(body[i] = "_" /\ body[i + 1] = "_")
        THEN [ok |-> TRUE,
              val |-> IF signed /\ text[1] = "-"
                      THEN -DigitsVal(digits) ELSE DigitsVal(digits)]
        ELSE [ok |-> FALSE]

\* the texts that switch backup_enabled on
TrueTexts == {<<"t", "r", "u", "e">>, <<"1">>, <<"y", "e", "s">>, <<"o", "n">>}

\* (the environment not looked at)
get_config_ignoring_environ(environ) == BASE_CONFIG

\* BASE_CONFIG with the values of the variables that are set
get_config(environ) ==
    [BASE_CONFIG EXCEPT
        !.iceberg_url = IF environ.ICEBERG_URL.set
                        THEN environ.ICEBERG_URL.value ELSE @,
        !.output_file = IF environ.OUTPUT_FILE.set
                        THEN environ.OUTPUT_FILE.value ELSE @,
        !.log_level = IF environ.LOG_LEVEL.set
                      THEN environ.LOG_LEVEL.value ELSE @,
        !.request_timeout =
            IF environ.REQUEST_TIMEOUT.set /\ config_int(environ.REQUEST_TIMEOUT.value).ok
            THEN config_int(environ.REQUEST_TIMEOUT.value).val ELSE @,
        !.backup_enabled = IF environ.BACKUP_ENABLED.set
                           THEN lower(environ.BACKUP_ENABLED.value) \in TrueTexts
                           ELSE @]

\* the values of ICEBERG_URL and OUTPUT_FILE
UrlTexts == {<<"h", "t", "t", "p", "s", ":", "/", "/", "x">>, <<"h", "t", "t", "p", ":", "/", "/", "x">>, <<>>}

FileTexts == {<<"o", ".", "j", "s", "o", "n">>, <<"o", ".", "c", "s", "v">>, <<>>}

LevelTexts == {<<"D", "E", "B", "U", "G">>}

\* the values of REQUEST_TIMEOUT: numbers above, at and below zero, with a
\* sign, blanks or an underscore, and texts that are no integer
TimeoutTexts ==
    {<<"3", "0">>,
     <<"0">>,
     <<"-", "5">>,
     <<"a", "b", "c">>,
     <<>>,
     <<" ", "7", " ">>,
     <<"1", "_", "0">>,
     <<"3", ".", "5">>,
     <<"+", "5">>,
     <<"6", "0">>,
     <<"_", "1">>,
     <<"1", "_", "_", "0">>,
     <<"-", " ", "5">>}

\* the values of BACKUP_ENABLED
BackupTexts ==
    {<<"t", "r", "u", "e">>,
     <<"T", "R", "U", "E">>,
     <<"1">>,
     <<"y", "e", "s">>,
     <<"O", "n">>,
     <<"f", "a", "l", "s", "e">>,
     <<"0">>,
     <<>>}

Setting(texts) == {Unset} \cup { SetTo(t) : t \in texts }

\* the process environments
Environs ==
    [ICEBERG_URL : Setting(UrlTexts), OUTPUT_FILE : Setting(FileTexts),
     LOG_LEVEL : Setting(LevelTexts), REQUEST_TIMEOUT : Setting(TimeoutTexts),
     BACKUP_ENABLED : Setting(BackupTexts)]

(***************************************************************************)
(* The commands: what each returns, what its utility returned and the data *)
(* file it leaves                                                          *)
(***************************************************************************)
\* (exit codes the other way round)
scrape_command_inverted(page, file) ==
    TheOne({ [value |-> IF success.value THEN 1 ELSE 0, util |-> success.value,
              file |-> success.file] :
               success \in {run_scraper(page, file)} })

scrape_command(page, file) ==
    TheOne({ [value |-> IF success.value THEN 0 ELSE 1, util |-> success.value,
              file |-> success.file] :
               success \in {run_scraper(page, file)} })

info_command(file) ==
    TheOne({ [value |-> IF success THEN 0 ELSE 1, util |-> success, file |-> file] :
               success \in {show_info(file)} })

map_command(file) ==
    TheOne({ [value |-> IF success THEN 0 ELSE 1, util |-> success, file |-> file] :
               success \in {generate_map(file)} })

animations_command(file) ==
    TheOne({ [value |-> IF success THEN 0 ELSE 1, util |-> success, file |-> file] :
               success \in {show_animations(file).value} })

api_command(file) ==
    TheOne({ [value |-> IF success THEN 0 ELSE 1, util |-> success, file |-> file] :
               success \in {generate_api(file)} })

(***************************************************************************)
(* The entry point: main.py runs main of cli.py, which has functions of    *)
(* its own behind the commands                                             *)
(***************************************************************************)
\* the commands the argument parser of cli.py accepts
choices == {"scrape", "info", "map", "animations"}

\* iceberg.py run as a script: it calls collect_iceberg_data and ends with
\* return code 0 whatever the call returns
iceberg_script(page, file) ==
    TheOne({ [returncode |-> 0, file |-> out.file] :
               out \in {collect_iceberg_data(page, file)} })

\* run_scraper of cli.py: True when the script ends with return code 0
cli_run_scraper(page, file) ==
    TheOne({ [value |-> result.returncode = 0, file |-> result.file] :
               result \in {iceberg_script(page, file)} })

\* show_info of cli.py: False without a data file and when reading it or
\* summing up a value that is no dict raises
cli_show_info(file) ==
    /\ file.exists
    /\ TheOne({ loaded.kind = "ok" /\ loaded.value.type = "dict" :
                  loaded \in {json_loads(file.text)} })

\* generate_map of cli.py writes a page that does not depend on the data
cli_generate_map(file) == file.exists

\* show_animations of cli.py: True when the latest entry has icebergs
cli_show_animations(file) ==
    /\ file.exists
    /\ TheOne({ /\ loaded.kind = "ok"
                /\ loaded.value.type = "dict"
                /\ TheOne({ /\ dict_contains(loaded.value, latest_date)
                            /\ Len(dict_getitem(loaded.value, latest_date)) > 0 :
                              latest_date \in {get_latest_date(loaded.value)} }) :
                  loaded \in {json_loads(file.text)} })

\* how main of cli.py ends for the command of the command line: it
\* returns an exit code, or the argument parser exits with code 2; and the
\* data file it leaves
main(command, page, file) ==
    IF command \notin choices
    THEN [kind |-> "exit", value |-> 2, file |-> file]
    ELSE IF command = "scrape"
    THEN TheOne({ [kind |-> "return", value |-> IF success.value THEN 0 ELSE 1,
                   file |-> success.file] :
                    success \in {cli_run_scraper(page, file)} })
    ELSE TheOne({ [kind |-> "return", value |-> IF success THEN 0 ELSE 1,
                   file |-> file] :
                    success \in { CASE command = "info" -> cli_show_info(file)
                                    [] command = "map" -> cli_generate_map(file)
                                    [] command = "animations" ->
                                            cli_show_animations(file) } })

\* the command of the command line: the five of the help text of
\* cli_new.py and one that is none of them
Arguments == {"scrape", "info", "map", "animations", "api", "status"}

(***************************************************************************)
(* Inputs of the scraper and of the commands                               *)
(***************************************************************************)
\* the rows of the scraped pages
PageRows == {Row_a23a, Row_no_digits}

\* the revised dates of the scraped pages: two times of one day
ScrapeRevisedDates ==
    { datetime(2021, 2, 12, <<10, 0, 0>>), datetime(2021, 2, 12, <<23, 59, 59>>) }

Pages ==
    {PageRaises, PageNoDate}
        \cup { PageOf(rows, r) : rows \in RowLists(PageRows, MaxPageRows),
                                 r \in ScrapeRevisedDates }

\* the pages of the scrape command: a page that cannot be fetched, a page
\* of two icebergs and a page with a row that cannot be converted
CommandPages ==
    { PageRaises,
      PageOf(<<Row_a23a, Row_a23a>>, datetime(2021, 2, 12, <<10, 0, 0>>)),
      PageOf(<<Row_a23a, Row_no_digits>>, datetime(2021, 2, 12, <<10, 0, 0>>)) }

\* the data file an earlier scrape of February 5, 2021 has written
ScrapedFile ==
    save_data_as_file(
        get_iceberg_details(<<Row_d15a, Row_a23a, Row_b22a>>,
                            datetime(2021, 2, 5, <<10, 0, 0>>)).list,
        datetime(2021, 2, 5, <<10, 0, 0>>), FileOf(EmptyText)).file

\* the data file before the first command: absent, empty, not JSON, the
\* JSON null, an object without members, or written by an earlier scrape
DataFiles ==
    {NoFile, FileOf(EmptyText), FileOf(InvalidText), FileOf(NullText),
     FileOf(ObjectText(<<>>)), ScrapedFile}

\* the keys of the histories given to get_latest_date: dates of several
\* years and of both centuries of %y, a date without zero padding, and
\* keys that are no dates
HistoryKeys ==
    { <<"1", "2", "/", "3", "1", "/", "2", "4">>,
      <<"0", "1", "/", "1", "5", "/", "2", "5">>,
      <<"0", "7", "/", "0", "2", "/", "2", "5">>,
      <<"1", "/", "1", "5", "/", "2", "5">>,
      <<"1", "2", "/", "3", "1", "/", "9", "9">>,
      <<"0", "1", "/", "0", "1", "/", "6", "8">>,
      <<"0", "2", "/", "2", "9", "/", "2", "4">>,
      <<"0", "2", "/", "2", "9", "/", "2", "5">>,
      <<"1", "3", "/", "0", "1", "/", "2", "5">>,
      <<"l", "a", "t", "e", "s", "t">> }

\* the histories of at most n keys, in every order of insertion
Histories(n) ==
    { dict([i \in 1..Len(keys) |-> [key |-> keys[i], value |-> <<>>]]) :
        keys \in { s \in UNION { [1..k -> HistoryKeys] : k \in 0..n } :
                     \A i, j \in 1..Len(s) : i # j => s[i] # s[j] } }

\* the longest history given to create_api_endpoints
MaxDates == 31

\* the first collection date of a history: November 25 to December 9, 2024
ApiStarts == { ymd2ord(2024, 11, 25) + i : i \in 0..14 }

\* a collection every day or every week
ApiStrides == {1, 7}

\* the number of collection dates: one, two, and about RECENT_DATES
ApiLengths == {1, 2} \cup (MaxDates - 3)..MaxDates

\* a record as the scraper stores it
ScrapedRecord == ScrapedFile.text.members[1].value[1]

\* the history of n collections from the day start on, every stride days,
\* in the order they were saved; the iceberg is observed on the day of the
\* collection
ApiHistory(start, stride, n) ==
    dict([i \in 1..n |->
            TheOne({ [key |-> key,
                      value |-> <<[ScrapedRecord EXCEPT !.recent_observation = key]>>] :
                       key \in {strftime_mdy(ord2ymd(start + (i - 1) * stride))} })])

\* the data file create_api_endpoints finds
ApiFiles ==
    DataFiles
        \cup { FileOf(json_dumps(ApiHistory(start, stride, n))) :
                  start \in ApiStarts, stride \in ApiStrides, n \in ApiLengths }

(***************************************************************************)
(* Specification                                                           *)
(*                                                                         *)
(* The pure functions, create_api_endpoints, get_config and the entry      *)
(* point are each called once, with arguments drawn from their inputs.     *)
(* The scraper, the commands and the readers of the data                   *)
(* file are called one after another, in any order, on the data file the   *)
(* calls before have left; the call then records the data file it found.   *)
(***************************************************************************)
\* a call of dms2dec is about to be made
InitDms ==
    /\ \E s \in DmsInputs : call = [fn |-> "dms2dec", dms_str |-> s]
    /\ ret = [kind |-> "none"]
    /\ data_file = NoFile

\* a call of get_update_datetime is about to be made
InitDate ==
    /\ \E d \in DayNumbers, r \in ValidRevisedDates :
            call = [fn |-> "get_update_datetime", days |-> d, revised_date |-> r]
    /\ ret = [kind |-> "none"]
    /\ data_file = NoFile

\* a call of get_iceberg_details is about to be made
InitDetails ==
    /\ \E rows \in RowLists(Rows, MaxRows), r \in PageRevisedDates :
            call = [fn |-> "get_iceberg_details", location_data |-> rows,
                    revised_date |-> r]
    /\ ret = [kind |-> "none"]
    /\ data_file = NoFile

\* a call of get_latest_date is about to be made
InitLatest ==
    /\ \E data \in Histories(MaxKeys) : call = [fn |-> "get_latest_date", data |-> data]
    /\ ret = [kind |-> "none"]
    /\ data_file = NoFile

\* a call of create_api_endpoints is about to be made
InitApi ==
    /\ \E file \in ApiFiles :
            /\ call = [fn |-> "create_api_endpoints", file |-> file]
            /\ data_file = file
    /\ ret = [kind |-> "none"]

\* a call of get_config is about to be made
InitConfig ==
    /\ \E environ \in Environs : call = [fn |-> "get_config", environ |-> environ]
    /\ ret = [kind |-> "none"]
    /\ data_file = NoFile

\* main.py is about to be run with a command
InitMain ==
    /\ \E command \in Arguments, page \in CommandPages, file \in DataFiles :
            /\ call = [fn |-> "main", command |-> command, page |-> page,
                       file |-> file]
            /\ data_file = file
    /\ ret = [kind |-> "none"]

\* no command has run yet
InitApp ==
    /\ call = [fn |-> "none"]
    /\ ret = [kind |-> "none"]
    /\ data_file \in DataFiles

\* a call is about to be made with arguments drawn from the inputs
Init == InitDms \/ InitDate \/ InitDetails \/ InitLatest \/ InitApi
            \/ InitConfig \/ InitMain \/ InitApp

call_dms2dec ==
    /\ call.fn = "dms2dec"
    /\ ret.kind = "none"
    /\ ret' = dms2dec(call.dms_str)
    /\ UNCHANGED <<call, data_file>>

call_get_update_datetime ==
    /\ call.fn = "get_update_datetime"
    /\ ret.kind = "none"
    /\ ret' = get_update_datetime(call.days, call.revised_date)
    /\ UNCHANGED <<call, data_file>>

call_get_iceberg_details ==
    /\ call.fn = "get_iceberg_details"
    /\ ret.kind = "none"
    /\ ret' = get_iceberg_details(call.location_data, call.revised_date)
    /\ UNCHANGED <<call, data_file>>

call_get_latest_date ==
    /\ call.fn = "get_latest_date"
    /\ ret.kind = "none"
    /\ ret' = [kind |-> "ok", value |-> get_latest_date(call.data)]
    /\ UNCHANGED <<call, data_file>>

\* the scraper and the commands run after one another
InApp == call.fn \notin {"dms2dec", "get_update_datetime", "get_iceberg_details",
                         "get_latest_date", "create_api_endpoints", "get_config",
                         "main"}

call_create_api_endpoints ==
    /\ call.fn = "create_api_endpoints"
    /\ ret.kind = "none"
    /\ ret' = create_api_endpoints(call.file)
    /\ UNCHANGED <<call, data_file>>

call_get_config ==
    /\ call.fn = "get_config"
    /\ ret.kind = "none"
    /\ ret' = [kind |-> "ok", config |-> get_config(call.environ)]
    /\ UNCHANGED <<call, data_file>>

call_main ==
    /\ call.fn = "main"
    /\ ret.kind = "none"
    /\ \E out \in {main(call.command, call.page, data_file)} :
         /\ ret' = [kind |-> out.kind, value |-> out.value]
         /\ data_file' = out.file
    /\ UNCHANGED call

call_collect_iceberg_data ==
    /\ InApp
    /\ \E page \in Pages :
         \E out \in {collect_iceberg_data(page, data_file)} :
             /\ call' = [fn |-> "collect_iceberg_data", page |-> page, file |-> data_file]
             /\ ret' = [kind |-> "ok", value |-> out.value, saves |-> out.saves,
                        details |-> out.details, saved |-> out.saved]
             /\ data_file' = out.file

call_scrape_command ==
    /\ InApp
    /\ \E page \in CommandPages :
         \E out \in {scrape_command(page, data_file)} :
             /\ call' = [fn |-> "scrape_command", page |-> page, file |-> data_file]
             /\ ret' = [kind |-> "ok", value |-> out.value, util |-> out.util]
             /\ data_file' = out.file

call_info_command ==
    /\ InApp
    /\ \E out \in {info_command(data_file)} :
         /\ call' = [fn |-> "info_command", file |-> data_file]
         /\ ret' = [kind |-> "ok", value |-> out.value, util |-> out.util]
         /\ data_file' = out.file

call_map_command ==
    /\ InApp
    /\ \E out \in {map_command(data_file)} :
         /\ call' = [fn |-> "map_command", file |-> data_file]
         /\ ret' = [kind |-> "ok", value |-> out.value, util |-> out.util]
         /\ data_file' = out.file

call_animations_command ==
    /\ InApp
    /\ \E out \in {animations_command(data_file)} :
         /\ call' = [fn |-> "animations_command", file |-> data_file]
         /\ ret' = [kind |-> "ok", value |-> out.value, util |-> out.util]
         /\ data_file' = out.file

call_api_command ==
    /\ InApp
    /\ \E out \in {api_command(data_file)} :
         /\ call' = [fn |-> "api_command", file |-> data_file]
         /\ ret' = [kind |-> "ok", value |-> out.value, util |-> out.util]
         /\ data_file' = out.file

call_load_iceberg_data ==
    /\ InApp
    /\ \E out \in {load_iceberg_data(data_file)} :
         /\ call' = [fn |-> "load_iceberg_data", file |-> data_file]
         /\ ret' = [kind |-> "ok", data |-> out.data, error |-> out.error]
    /\ UNCHANGED data_file

call_show_animations ==
    /\ InApp
    /\ \E out \in {show_animations(data_file)} :
         /\ call' = [fn |-> "show_animations", file |-> data_file]
         /\ ret' = [kind |-> "ok", value |-> out.value, lines |-> out.lines]
    /\ UNCHANGED data_file

\* the scraper, the commands and the readers of the data file
NextApp ==
    \/ call_collect_iceberg_data
    \/ call_scrape_command
    \/ call_info_command
    \/ call_map_command
    \/ call_animations_command
    \/ call_api_command
    \/ call_load_iceberg_data
    \/ call_show_animations

Next ==
    \/ call_dms2dec
    \/ call_get_update_datetime
    \/ call_get_iceberg_details
    \/ call_get_latest_date
    \/ call_create_api_endpoints
    \/ call_get_config
    \/ call_main
    \/ NextApp

Spec == Init /\ [][Next]_vars

\* the calls of dms2dec alone
SpecDms == InitDms /\ [][call_dms2dec]_vars

\* the calls of get_update_datetime alone
SpecDate == InitDate /\ [][call_get_update_datetime]_vars

\* the calls of get_iceberg_details alone
SpecDetails == InitDetails /\ [][call_get_iceberg_details]_vars

\* the calls of get_latest_date alone
SpecLatest == InitLatest /\ [][call_get_latest_date]_vars

\* the calls of create_api_endpoints alone
SpecApi == InitApi /\ [][call_create_api_endpoints]_vars

\* the calls of get_config alone
SpecConfig == InitConfig /\ [][call_get_config]_vars

\* main.py run once
SpecMain == InitMain /\ [][call_main]_vars

\* the scraper and the commands on the data file
SpecApp == InitApp /\ [][NextApp]_vars

(***************************************************************************)
(* Vocabulary of the properties                                            *)
(***************************************************************************)
Returned(fn) == call.fn = fn /\ ret.kind # "none"

HasDigit(s) == \E i \in 1..Len(s) : IsDigit(s[i])

\* the maximal runs of digits of s, in order
RECURSIVE DigitRuns(_)
DigitRuns(s) ==
    LET i == FirstDigitFrom(s, 1)
        j == FirstNonDigitFrom(s, i)
    IN  IF i > Len(s) THEN <<>>
        ELSE <<SubSeq(s, i, j - 1)>> \o DigitRuns(SubSeq(s, j, Len(s)))

FirstFour(runs) == SubSeq(runs, 1, IF Len(runs) < 4 THEN Len(runs) ELSE 4)

RunOr0(runs, k) == IF Len(runs) >= k THEN runs[k] ELSE <<"0">>

\* sign * (degree + minute / 60 + S / 3600) as a fraction over 3600 * 10^f,
\* S being second "." fraction and f the number of digits of the fraction
DmsValue(sign, degree, minute, second, fraction) ==
    LET f == Len(fraction)
    IN  [kind |-> "ok", sign |-> sign,
         num |-> DigitsVal(degree) * 3600 * Pow10(f)
                 + DigitsVal(minute) * 60 * Pow10(f)
                 + DigitsVal(second \o fraction),
         den |-> 3600 * Pow10(f)]

\* what the DMS formula gives for the first four digit runs of s
ExpectedDms(s) ==
    LET t == SelectSeq(s, LAMBDA c : c \notin Whitespace)
        runs == DigitRuns(t)
    IN  DmsValue(IF \E i \in 1..Len(t) : t[i] \in {"S", "W", "s", "w"} THEN -1 ELSE 1,
                 runs[1], RunOr0(runs, 2), RunOr0(runs, 3), RunOr0(runs, 4))

\* C1: for every input whose whitespace-stripped form has a digit run,
\* dms2dec returns sign * (degree + minute/60 + S/3600) for the first four
\* digit runs, absent ones counting as 0, S being second "." fraction
C1_Formula ==
    Returned("dms2dec") /\ HasDigit(call.dms_str)
        => ret = ExpectedDms(call.dms_str)

\* the first n decimals of r / den (r < den) as an integer
RECURSIVE Decimals(_, _, _)
Decimals(r, den, n) ==
    IF n = 0 THEN 0
    ELSE ((r * 10) \div den) * Pow10(n - 1) + Decimals((r * 10) % den, den, n - 1)

\* the remainder left after n decimals of r / den
RECURSIVE DecimalsRest(_, _, _)
DecimalsRest(r, den, n) ==
    IF n = 0 THEN r ELSE DecimalsRest((r * 10) % den, den, n - 1)

\* |num/den - (whole + hi/10^5 + lo/10^10)| <= 10^-9, hi and lo below 10^5
Within1e9(num, den, whole, hi, lo) ==
    LET r == num % den
        vhi == Decimals(r, den, 5)
        vlo == Decimals(DecimalsRest(r, den, 5), den, 5)
        exact == DecimalsRest(r, den, 10) = 0
        x == ((num \div den) - whole) * 100000 + (vhi - hi)
        total == x * 100000 + (vlo - lo)     \* the difference in units of 10^-10
    IN  /\ x \in -1..1
        /\ total >= -10
        /\ total < 10 \/ (total = 10 /\ exact)

Docstring_N == <<"4", "8", "deg", "5", "3", "'", "1", "0", ".", "1", "8", "\"", "N">>

Docstring_W == <<"2", "deg", "2", "0", "'", "3", "5", ".", "0", "9", "\"", "W">>

HasSW(s) == \E i \in 1..Len(s) : s[i] \in {"S", "W", "s", "w"}

\* C3: dms2dec returns a negative value when the input has an S or W in
\* either case anywhere, and a positive value otherwise (the sign of a zero
\* is taken as the sign of the value)
C3_Formula ==
    Returned("dms2dec") /\ HasDigit(call.dms_str)
        => /\ ret.kind = "ok"
           /\ ret.sign = (IF HasSW(call.dms_str) THEN -1 ELSE 1)

Negated(r) == IF r.kind = "ok" THEN [r EXCEPT !.sign = -r.sign] ELSE r

\* the positions of s holding its one S or W, none when it has several
OnlySW(s) ==
    { i \in 1..Len(s) :
        /\ s[i] \in {"S", "W", "s", "w"}
        /\ \A j \in 1..Len(s) : j # i => s[j] \notin {"S", "W", "s", "w"} }

\* removing s[i] joins no two digit runs
KeepsRuns(s, i) ==
    DigitRuns(re_sub_whitespace(RemoveAt(s, i))) = DigitRuns(re_sub_whitespace(s))

\* C4: for a valid DMS string s with a hemisphere letter S or W at any
\* position, before the first digit included, dms2dec(s) is the negation of
\* dms2dec of s with that letter removed
C4_Formula ==
    Returned("dms2dec") =>
        \A i \in OnlySW(call.dms_str) :
            KeepsRuns(call.dms_str, i)
            /\ dms2dec(RemoveAt(call.dms_str, i)).kind = "ok"
                => ret = Negated(dms2dec(RemoveAt(call.dms_str, i)))

\* s up to the end of its fourth digit run, all of s when it has fewer
RECURSIVE UpToRun(_, _)
UpToRun(s, k) ==
    LET i == FirstDigitFrom(s, 1)
        j == FirstNonDigitFrom(s, i)
    IN  IF k = 0 THEN <<>>
        ELSE IF i > Len(s) THEN s
        ELSE SubSeq(s, 1, j - 1) \o UpToRun(SubSeq(s, j, Len(s)), k - 1)

Magnitude(r) == IF r.kind = "ok" THEN [r EXCEPT !.sign = 1] ELSE r

\* C5: the tokens dms2dec uses are the first four maximal digit runs of the
\* stripped string, digits only, and what follows the fourth run changes
\* neither the magnitude of the result nor whether the call succeeds
C5_Formula ==
    Returned("dms2dec") =>
        LET stripped == re_sub_whitespace(call.dms_str)
            numbers == dms2dec_numbers(stripped)
        IN  /\ FirstFour(numbers) = FirstFour(DigitRuns(stripped))
            /\ \A k \in 1..Len(FirstFour(numbers)) : AllDigits(numbers[k])
            /\ Magnitude(ret) = Magnitude(dms2dec(UpToRun(stripped, 4)))

\* C6 as stated: on an input without a digit dms2dec fails with
\* InvalidCoordinateFormat
C6_Original ==
    Returned("dms2dec") /\ ~HasDigit(call.dms_str)
        => ret = [kind |-> "error", error |-> "InvalidCoordinateFormat"]

\* C6 amended: on an input without a digit dms2dec fails with IndexError,
\* which reaches the caller; it returns no number
C6_Amended ==
    Returned("dms2dec") /\ ~HasDigit(call.dms_str)
        => ret = [kind |-> "error", error |-> "IndexError"]

C6_Witness ==
    Returned("dms2dec") /\ call.dms_str = <<"a", "b", "c">> /\ ret.kind = "error"

\* the day-of-year of a date, counted month by month
RECURSIVE DaysBeforeMonth(_, _)
DaysBeforeMonth(year, month) ==
    IF month = 1 THEN 0
    ELSE DaysBeforeMonth(year, month - 1) + days_in_month(year, month - 1)

OrdinalDay(date) == DaysBeforeMonth(date.year, date.month) + date.day

YearLength(year) == IF is_leap(year) THEN 366 ELSE 365

\* the year the strictly-greater rule names
RuleYear(days, revised) ==
    IF days > OrdinalDay(revised) THEN revised.year - 1 ELSE revised.year

\* the n-th day counted from the first of the month, n = 1 being the first;
\* n runs over the month ends in either direction
RECURSIVE WalkDays(_, _, _)
WalkDays(year, month, n) ==
    IF n < 1
    THEN IF month = 1
         THEN WalkDays(year - 1, 12, n + 31)
         ELSE WalkDays(year, month - 1, n + days_in_month(year, month - 1))
    ELSE IF n > days_in_month(year, month)
    THEN IF month = 12
         THEN WalkDays(year + 1, 1, n - 31)
         ELSE WalkDays(year, month + 1, n - days_in_month(year, month))
    ELSE <<year, month, n>>

Str(date) == TwoDigits(date[2]) \o <<"/">> \o TwoDigits(date[3]) \o <<"/">>
                \o TwoDigits(date[1] % 100)

Revised_2021_02_12 == datetime(2021, 2, 12, <<10, 0, 0>>)

\* C7: the year is revised.year - 1 exactly when days is strictly greater
\* than the day-of-year of revised and revised.year otherwise: every day
\* number of that year resolves to a date of that year, and for revised
\* 2021-02-12 day 43 gives 02/12/21 and day 44 gives 02/13/20
C7_Formula ==
    Returned("get_update_datetime") =>
        /\ call.days \in 1..YearLength(RuleYear(call.days, call.revised_date))
             => /\ ret.kind = "ok"
                /\ SubSeq(ret.str, 7, 8)
                     = TwoDigits(RuleYear(call.days, call.revised_date) % 100)
        /\ call.revised_date = Revised_2021_02_12 /\ call.days = 43
             => ret = [kind |-> "ok", str |-> <<"0", "2", "/", "1", "2", "/", "2", "1">>]
        /\ call.revised_date = Revised_2021_02_12 /\ call.days = 44
             => ret = [kind |-> "ok", str |-> <<"0", "2", "/", "1", "3", "/", "2", "0">>]

\* days equal to the day-of-year of revised
C7_Witness ==
    /\ Returned("get_update_datetime")
    /\ call.days = OrdinalDay(call.revised_date)
    /\ ret.kind = "ok"
    /\ SubSeq(ret.str, 7, 8) = TwoDigits(call.revised_date.year % 100)

NearDays == (1 - MaxDaysOut)..(366 + MaxDaysOut)

\* C8: the date returned is January 1 of the year of the rule advanced by
\* days - 1 calendar days, month lengths and leap years honoured; day 1 with
\* revised 2021-02-12 gives 01/01/21
C8_Formula ==
    Returned("get_update_datetime") /\ call.days \in NearDays =>
        /\ ret.kind = "ok"
        /\ ret.str = Str(WalkDays(RuleYear(call.days, call.revised_date), 1, call.days))
        /\ call.revised_date = Revised_2021_02_12 /\ call.days = 1
             => ret.str = <<"0", "1", "/", "0", "1", "/", "2", "1">>

\* February 29 of a leap year, reached from a revised date of the next year
C8_Witness ==
    /\ Returned("get_update_datetime")
    /\ call.days = 60
    /\ call.revised_date.year = 2021
    /\ ret = [kind |-> "ok", str |-> <<"0", "2", "/", "2", "9", "/", "2", "0">>]

DateLE(a, b) ==
    \/ a[1] < b[1]
    \/ a[1] = b[1] /\ a[2] < b[2]
    \/ a[1] = b[1] /\ a[2] = b[2] /\ a[3] <= b[3]

\* C9: for day numbers 1..366 the date resolved is on or before the date
\* of revised
C9_Formula ==
    Returned("get_update_datetime") /\ call.days \in 1..366 =>
        LET date == get_update_datetime_date(call.days, call.revised_date)
        IN  /\ date.kind = "ok"
            /\ ret = [kind |-> "ok", str |-> Str(date.date)]
            /\ DateLE(date.date, <<call.revised_date.year, call.revised_date.month,
                                   call.revised_date.day>>)

\* a day number after the revised day, resolved in the year before
C9_Witness ==
    /\ Returned("get_update_datetime")
    /\ call.days \in 1..366
    /\ call.days > OrdinalDay(call.revised_date)
    /\ ret.kind = "ok"
    /\ SubSeq(ret.str, 7, 8) = TwoDigits((call.revised_date.year - 1) % 100)

\* two digits, a slash, two digits, a slash, two digits
WellFormed(str) ==
    /\ Len(str) = 8
    /\ str[3] = "/" /\ str[6] = "/"
    /\ \A i \in {1, 2, 4, 5, 7, 8} : IsDigit(str[i])

\* C10 as stated: for every integer days, in 1..366 or not, and every
\* revised date get_update_datetime returns a well-formed MM/DD/YY string
C10_Original ==
    Returned("get_update_datetime")
        => ret.kind = "ok" /\ WellFormed(ret.str)

\* January 1 of the year of the rule plus days - 1 is a date of the years
\* 1 to 9999
InCalendar(days, revised) ==
    LET y == RuleYear(days, revised) - 1
        before == y * 365 + (y \div 4) - (y \div 100) + (y \div 400)
    IN  days >= -before + 1 /\ days <= MAXORDINAL - before

\* C10 amended: for every days for which January 1 of the year of the rule
\* plus days - 1 days is a date of the years 1 to 9999 (0, negative and
\* above 366 included) a well-formed MM/DD/YY string is returned; for a days
\* beyond that the call raises OverflowError
C10_Amended ==
    Returned("get_update_datetime") =>
        IF InCalendar(call.days, call.revised_date)
        THEN ret.kind = "ok" /\ WellFormed(ret.str)
        ELSE ret = [kind |-> "error", error |-> "OverflowError"]

\* an out-of-range day number that resolves
C10_Witness ==
    /\ Returned("get_update_datetime")
    /\ call.days \notin 1..366
    /\ ret.kind = "ok"
    /\ ret.str[1] = "0"

\* C11 as stated: every days <= 0 goes through the same formula and gives a
\* date of a calendar year before the year of revised, days = 0 giving
\* December 31 of the year before
C11_Original ==
    Returned("get_update_datetime") /\ call.days <= 0 =>
        LET date == get_update_datetime_date(call.days, call.revised_date)
        IN  /\ date.kind = "ok"
            /\ ret = [kind |-> "ok", str |-> Str(date.date)]
            /\ date.date[1] < call.revised_date.year
            /\ call.days = 0 => date.date = <<call.revised_date.year - 1, 12, 31>>

\* C11 amended: every days <= 0 for which January 1 of the year of revised
\* plus days - 1 days is not before year 1 goes through the same formula and
\* gives a date of a calendar year before the year of revised, days = 0
\* giving December 31 of the year before; a days below that raises
\* OverflowError
C11_Amended ==
    Returned("get_update_datetime") /\ call.days <= 0 =>
        IF InCalendar(call.days, call.revised_date)
        THEN LET date == get_update_datetime_date(call.days, call.revised_date)
             IN  /\ date.kind = "ok"
                 /\ ret = [kind |-> "ok", str |-> Str(date.date)]
                 /\ date.date[1] < call.revised_date.year
                 /\ call.days \in NearDays
                      => date.date = WalkDays(call.revised_date.year, 1, call.days)
                 /\ call.days = 0
                      => ret.str = <<"1", "2", "/", "3", "1", "/">>
                                      \o TwoDigits((call.revised_date.year - 1) % 100)
        ELSE ret = [kind |-> "error", error |-> "OverflowError"]

\* day 0, the day number of a row without a fourth field
C11_Witness ==
    /\ Returned("get_update_datetime")
    /\ call.days = 0
    /\ call.revised_date = Revised_2021_02_12
    /\ ret = [kind |-> "ok", str |-> <<"1", "2", "/", "3", "1", "/", "2", "0">>]

(***************************************************************************)
(* The records and the history store                                       *)
(***************************************************************************)
\* C13: when get_iceberg_details returns, its list is as long as the row
\* list it was given and its i-th record is made from the i-th row
C13_Formula ==
    Returned("get_iceberg_details") /\ ret.kind = "ok" =>
        /\ Len(ret.list) = Len(call.location_data)
        /\ \A i \in 1..Len(ret.list) : ret.list[i].iceberg = call.location_data[i][1]

\* the keys the data model gives a record
DataModelKeys ==
    {"iceberg", "dms_longitude", "dms_latitude", "longitude", "latitude",
     "recent_observation"}

\* the entry show_animations prints from: the one under the latest key of
\* the history in the data file
LatestEntry(file) ==
    LET data == json_loads(file.text).value
    IN  dict_getitem(data, get_latest_date(data))

\* C14: the records in the data file have the keys of the data model, and
\* show_animations prints, for each record of the latest entry, the DMS
\* latitude stored in it (the third cell of its row), never N/A
C14_Formula ==
    Returned("show_animations") /\ ret.value =>
        /\ \A i \in 1..Len(LatestEntry(call.file)) :
               DOMAIN LatestEntry(call.file)[i] = DataModelKeys
        /\ Len(ret.lines) = Len(LatestEntry(call.file))
        /\ \A i \in 1..Len(ret.lines) :
               /\ ret.lines[i].lat # NotAvailable
               /\ ret.lines[i].lat \in {Row_a23a[3], Row_d15a[3], Row_b22a[3]}

\* the rows of a page that convert, each as the record it gives
ConvertedRows(page) ==
    LET good == SelectSeq(page.rows,
                    LAMBDA row : get_iceberg_details_record(row, page.revised_date).kind = "ok")
    IN  [i \in 1..Len(good) |-> get_iceberg_details_record(good[i], page.revised_date).dict]

\* a page with a revised date on which some row converts and some row
\* after the first does not
HasFailingRow(page) ==
    /\ page.outcome = "page"
    /\ Len(ConvertedRows(page)) > 0
    /\ \E i \in 2..Len(page.rows) :
          get_iceberg_details_record(page.rows[i], page.revised_date).kind = "error"

\* C15: when a row of the page does not convert, collect_iceberg_data still
\* saves records of the rows that do: on a data file it can write to, it
\* returns True and leaves an entry for the revised date that holds only
\* records of converted rows
C15_Formula ==
    /\ Returned("collect_iceberg_data")
    /\ HasFailingRow(call.page)
    /\ call.file.exists /\ call.file.text.form \in {"empty", "object"}
    => /\ ret.value
       /\ LET entry == LatestEntry(data_file)
          IN  \A i \in 1..Len(entry) :
                 \E j \in 1..Len(ConvertedRows(call.page)) :
                    entry[i] = ConvertedRows(call.page)[j]

\* the history in a data file: the dict its text parses to, the empty dict
\* when there is no file or its text is no JSON object
History(file) ==
    IF file.exists /\ json_loads(file.text).kind = "ok"
                   /\ json_loads(file.text).value.type = "dict"
    THEN json_loads(file.text).value
    ELSE dict(<<>>)

\* the key a save of the call's page writes
PageKey(c) ==
    strftime_mdy(<<c.page.revised_date.year, c.page.revised_date.month,
                   c.page.revised_date.day>>)

\* C16 as stated: no step removes a key of the history or changes the entry
\* under it, a save under the same key included
C16_Original ==
    [][\A i \in 1..Len(History(data_file).items) :
          LET item == History(data_file).items[i]
          IN  /\ dict_contains(History(data_file'), item.key)
              /\ dict_getitem(History(data_file'), item.key) = item.value]_vars

\* C16 amended: no step removes a key of the history, and the entry under a
\* key changes only by a save whose revised date formats to that key, which
\* replaces the entry by the records of its page
C16_Amended ==
    [][\A i \in 1..Len(History(data_file).items) :
          LET item == History(data_file).items[i]
          IN  /\ dict_contains(History(data_file'), item.key)
              /\ \/ dict_getitem(History(data_file'), item.key) = item.value
                 \/ /\ call'.fn \in {"collect_iceberg_data", "scrape_command"}
                    /\ call'.page.outcome = "page"
                    /\ item.key = PageKey(call')
                    /\ dict_getitem(History(data_file'), item.key)
                         = get_iceberg_details(call'.page.rows,
                                               call'.page.revised_date).list]_vars

\* a save has replaced the entry that an earlier save stored under its key,
\* and kept the entry of the other key
C16_Witness ==
    /\ Returned("collect_iceberg_data")
    /\ ret.value
    /\ Len(History(call.file).items) = 2
    /\ dict_contains(History(call.file), PageKey(call))
    /\ dict_getitem(History(call.file), PageKey(call))
         # dict_getitem(History(data_file), PageKey(call))
    /\ dict_keys(History(data_file)) = dict_keys(History(call.file))

\* C17: collect_iceberg_data returns True exactly when the page has a
\* revised date and rows and get_iceberg_details and save_data_as_file both
\* complete, and False otherwise; it calls save_data_as_file at most once,
\* and only when it then returns True or the save itself fails; the data
\* file is the one the save leaves, or untouched
C17_Formula ==
    Returned("collect_iceberg_data") =>
        LET page == call.page
            scraped == page.outcome = "page" /\ Len(page.rows) > 0
            details == get_iceberg_details(page.rows, page.revised_date)
            saved == save_data_as_file(details.list, page.revised_date, call.file)
        IN  /\ ret.kind = "ok"
            /\ ret.value \in BOOLEAN
            /\ ret.value = (scraped /\ details.kind = "ok" /\ saved.kind = "ok")
            /\ ret.value = (scraped /\ ret.details = "ok" /\ ret.saved = "ok")
            /\ ret.saves \in {0, 1}
            /\ ret.saves = 1 => ret.value \/ ret.saved = "error"
            /\ ret.saves = 1 <=> scraped /\ details.kind = "ok"
            /\ data_file = IF ret.saves = 1 THEN saved.file ELSE call.file

\* a scrape that saved
C17_Witness ==
    /\ Returned("collect_iceberg_data")
    /\ ret.value
    /\ ret.saves = 1
    /\ data_file # call.file

\* the value of the utility behind the command of the call
UtilityValue(c) ==
    CASE c.fn = "scrape_command" -> run_scraper(c.page, c.file).value
      [] c.fn = "info_command" -> show_info(c.file)
      [] c.fn = "map_command" -> generate_map(c.file)
      [] c.fn = "animations_command" -> show_animations(c.file).value
      [] c.fn = "api_command" -> generate_api(c.file)

Commands ==
    {"scrape_command", "info_command", "map_command", "animations_command",
     "api_command"}

\* C18: each command returns 0 when its utility returns a true value and 1
\* when it returns a false one
C18_Formula ==
    call.fn \in Commands /\ ret.kind # "none" =>
        /\ ret.value \in {0, 1}
        /\ ret.util = UtilityValue(call)
        /\ ret.value = 0 <=> UtilityValue(call)

\* the scrape command after a scrape that saved
C18_Witness ==
    /\ Returned("scrape_command")
    /\ ret.value = 0
    /\ data_file # call.file

\* the dates of the keys of a history
KeyDates(data) ==
    [i \in 1..Len(data.items) |-> strptime_mdy(data.items[i].key)]

\* C19: get_latest_date returns Unknown for a history without keys; for
\* keys that are all dates it returns a key no other key's date is after;
\* when some key is no date it returns the key no other key is greater than
\* as a string
C19_Formula ==
    Returned("get_latest_date") =>
        LET data == call.data
            dates == KeyDates(data)
        IN  IF Len(data.items) = 0 THEN ret.value = Unknown
            ELSE IF \A i \in 1..Len(dates) : dates[i].kind = "ok"
            THEN \E i \in 1..Len(dates) :
                    /\ ret.value = data.items[i].key
                    /\ \A j \in 1..Len(dates) : ~date_lt(dates[i].date, dates[j].date)
            ELSE /\ dict_contains(data, ret.value)
                 /\ \A j \in 1..Len(dates) : ~str_lt(ret.value, data.items[j].key)

\* the keys 12/31/24 and 01/15/25 give 01/15/25
C19_Witness ==
    /\ Returned("get_latest_date")
    /\ call.data = dict(<<[key |-> <<"1", "2", "/", "3", "1", "/", "2", "4">>, value |-> <<>>],
                          [key |-> <<"0", "1", "/", "1", "5", "/", "2", "5">>, value |-> <<>>]>>)
    /\ ret.value = <<"0", "1", "/", "1", "5", "/", "2", "5">>

\* what the claim says of the pair load_iceberg_data returns
LoadCases ==
    IF ~call.file.exists
    THEN /\ ret.data = None
         /\ ret.error.type = "str"
         /\ \E i \in 1..Len(ret.error.pieces) : ret.error.pieces[i] = "No data file found"
    ELSE IF call.file.text.form \in {"empty", "invalid"}
    THEN /\ ret.data = None
         /\ ret.error.type = "str"
         /\ ret.error.pieces[1] = "Error reading data: "
    ELSE /\ ret.error = None
         /\ ret.data = json_loads(call.file.text).value

\* C20 as stated: load_iceberg_data returns a pair of which exactly one
\* component is None: the parsed text and None for a file that parses, None
\* and a message for a missing file and for a file that does not parse
C20_Original ==
    Returned("load_iceberg_data") =>
        /\ ret.kind = "ok"
        /\ (ret.data = None) # (ret.error = None)
        /\ LoadCases

\* C20 amended: the same, except that a file whose text is the JSON null
\* parses to None, and both components are then None
C20_Amended ==
    Returned("load_iceberg_data") =>
        /\ ret.kind = "ok"
        /\ IF call.file.exists /\ call.file.text.form = "null"
           THEN ret.data = None /\ ret.error = None
           ELSE (ret.data = None) # (ret.error = None)
        /\ LoadCases

\* a data file holding null has been loaded
C20_Witness ==
    /\ Returned("load_iceberg_data")
    /\ call.file = FileOf(NullText)
    /\ ret.data = None
    /\ ret.error = None

(***************************************************************************)
(* The day-of-year round trip                                              *)
(***************************************************************************)
\* the month, the day and the two-digit year an MM/DD/YY string names
MonthOf(str) == DigitVal(str[1]) * 10 + DigitVal(str[2])

DayOf(str) == DigitVal(str[4]) * 10 + DigitVal(str[5])

YearOf(str) == DigitVal(str[7]) * 10 + DigitVal(str[8])

\* the string names the day of the year `days` of the year `year`
RoundTrip(str, year, days) ==
    /\ YearOf(str) = year % 100
    /\ MonthOf(str) \in 1..12
    /\ DaysBeforeMonth(year, MonthOf(str)) + DayOf(str) = days

\* C26 as stated: for every revised date and every day_of_year in 1..366
\* the date resolved has ordinal day-of-year equal to day_of_year and lies
\* in the candidate year of the strictly-greater rule, day 366 of a candidate
\* year that is not a leap year included
C26_Original ==
    Returned("get_update_datetime") /\ call.days \in 1..366 =>
        /\ ret.kind = "ok"
        /\ RoundTrip(ret.str, RuleYear(call.days, call.revised_date), call.days)

\* C26 amended: the round trip holds for every day_of_year that is a day of
\* the candidate year (1..365, and 366 when the candidate year is a leap
\* year); day 366 of a candidate year that is not a leap year resolves to
\* January 1 of the year after the candidate year
C26_Amended ==
    Returned("get_update_datetime") /\ call.days \in 1..366 =>
        LET year == RuleYear(call.days, call.revised_date)
        IN  /\ ret.kind = "ok"
            /\ IF call.days <= YearLength(year)
               THEN RoundTrip(ret.str, year, call.days)
               ELSE RoundTrip(ret.str, year + 1, 1)

\* day 366 counted in 2019, which has 365 days
C26_Witness ==
    /\ Returned("get_update_datetime")
    /\ call.days = 366
    /\ call.revised_date.year = 2020
    /\ call.revised_date.month = 2
    /\ ret = [kind |-> "ok", str |-> <<"0", "1", "/", "0", "1", "/", "2", "0">>]

(***************************************************************************)
(* The first scrape and the save on a history                              *)
(***************************************************************************)
\* the page has a revised date and rows, and every row converts
Scraped(page) ==
    /\ page.outcome = "page"
    /\ Len(page.rows) > 0
    /\ get_iceberg_details(page.rows, page.revised_date).kind = "ok"

\* the records get_iceberg_details makes of the page
Records(page) == get_iceberg_details(page.rows, page.revised_date).list

\* C24: with no data file, a collect_iceberg_data call whose scrape yields
\* a revised date and rows returns True and leaves a data file that holds
\* exactly the entry of that scrape; it does not fail because the file is
\* missing and leaves no empty file
C24_Formula ==
    Returned("collect_iceberg_data") /\ ~call.file.exists /\ Scraped(call.page) =>
        /\ ret.value
        /\ data_file.exists
        /\ data_file.text # EmptyText
        /\ History(data_file)
             = dict(<<[key |-> PageKey(call), value |-> Records(call.page)]>>)

\* the data file holds a history: its text parses to a dict
ValidHistory(file) ==
    /\ file.exists
    /\ json_loads(file.text).kind = "ok"
    /\ json_loads(file.text).value.type = "dict"

\* the set of the keys of a dict
KeySet(d) == { d.items[i].key : i \in 1..Len(d.items) }

\* C25: a save on a data file that holds a history leaves the history with
\* the key of the revised date mapped to the records, the keys being the
\* earlier keys and that key and every other key keeping its entry; a save
\* on a data file whose text does not parse to a history leaves the file
\* as it was
C25_Formula ==
    Returned("collect_iceberg_data") /\ ret.saves = 1 /\ call.file.exists
                                    /\ call.file.text # EmptyText =>
        IF ValidHistory(call.file)
        THEN /\ ret.saved = "ok"
             /\ ValidHistory(data_file)
             /\ KeySet(History(data_file))
                  = KeySet(History(call.file)) \cup {PageKey(call)}
             /\ Len(History(data_file).items) = Cardinality(KeySet(History(data_file)))
             /\ dict_getitem(History(data_file), PageKey(call)) = Records(call.page)
             /\ \A key \in KeySet(History(call.file)) \ {PageKey(call)} :
                    dict_getitem(History(data_file), key)
                        = dict_getitem(History(call.file), key)
        ELSE /\ ret.saved = "error"
             /\ data_file = call.file

\* a save has added a key to a history of one other key
C25_Witness ==
    /\ Returned("collect_iceberg_data")
    /\ ret.saves = 1
    /\ ValidHistory(call.file)
    /\ Len(History(call.file).items) = 1
    /\ ~dict_contains(History(call.file), PageKey(call))
    /\ Len(History(data_file).items) = 2

(***************************************************************************)
(* api/recent.json                                                         *)
(***************************************************************************)
\* the keys of the n chronologically most recent dates of a history whose
\* keys are dates: those with fewer than n keys of a later date
MostRecent(d, n) ==
    { k \in KeySet(d) :
        Cardinality({ j \in KeySet(d) :
                        date_lt(strptime_mdy(k).date, strptime_mdy(j).date) }) < n }

\* C22: api/recent.json holds exactly the entries of the 30 chronologically
\* most recent collection dates of the history, and of all its dates when
\* there are at most 30, also when the dates are of more than one year
C22_Formula ==
    /\ Returned("create_api_endpoints")
    /\ ValidHistory(call.file)
    /\ Len(History(call.file).items) > 0
    => /\ ret.kind = "ok"
       /\ ret.recent.type = "dict"
       /\ Len(ret.recent.items) = Cardinality(KeySet(ret.recent))
       /\ KeySet(ret.recent) = MostRecent(History(call.file), 30)
       /\ \A k \in KeySet(ret.recent) :
              /\ dict_contains(History(call.file), k)
              /\ dict_getitem(ret.recent, k) = dict_getitem(History(call.file), k)

(***************************************************************************)
(* The configuration                                                       *)
(***************************************************************************)
StartsWith(text, prefix) ==
    Len(text) >= Len(prefix) /\ SubSeq(text, 1, Len(prefix)) = prefix

EndsWith(text, suffix) ==
    /\ Len(text) >= Len(suffix)
    /\ SubSeq(text, Len(text) - Len(suffix) + 1, Len(text)) = suffix

\* the texts of REQUEST_TIMEOUT that Python's int() reads, each with the
\* integer it reads; int() raises ValueError on every other text of
\* TimeoutTexts
IntegerTexts ==
    {<<<<"3", "0">>, 30>>,
     <<<<"0">>, 0>>,
     <<<<"-", "5">>, -5>>,
     <<<<" ", "7", " ">>, 7>>,
     <<<<"1", "_", "0">>, 10>>,
     <<<<"+", "5">>, 5>>,
     <<<<"6", "0">>, 60>>}

\* the text is an integer
IsInteger(text) == \E p \in IntegerTexts : p[1] = text

IntegerOf(text) == (CHOOSE p \in IntegerTexts : p[1] = text)[2]

\* the values the configuration is said to have
Reasonable(config) ==
    /\ StartsWith(config.iceberg_url, <<"h", "t", "t", "p", "s", ":", "/", "/">>)
    /\ EndsWith(config.output_file, <<".", "j", "s", "o", "n">>)
    /\ config.request_timeout > 0

\* C21 as stated: in every environment get_config returns a dict with
\* iceberg_url, output_file and log_file whose iceberg_url starts with
\* "https://", whose output_file ends with ".json" and whose
\* request_timeout is above 0; a REQUEST_TIMEOUT that is no integer leaves
\* 30
C21_Original ==
    Returned("get_config") =>
        /\ {"iceberg_url", "output_file", "log_file"} \subseteq DOMAIN ret.config
        /\ Reasonable(ret.config)
        /\ call.environ.REQUEST_TIMEOUT.set
              /\ ~IsInteger(call.environ.REQUEST_TIMEOUT.value)
             => ret.config.request_timeout = 30

\* C21 amended: in every environment get_config returns a dict with
\* iceberg_url, output_file and log_file; with ICEBERG_URL, OUTPUT_FILE and
\* REQUEST_TIMEOUT unset the three values are as said; ICEBERG_URL,
\* OUTPUT_FILE and LOG_LEVEL, when set, are taken as they are; a
\* REQUEST_TIMEOUT that is an integer is taken as that integer, zero and
\* negative ones too, and one that is no integer leaves 30
C21_Amended ==
    Returned("get_config") =>
        LET environ == call.environ
            config == ret.config
        IN  /\ {"iceberg_url", "output_file", "log_file"} \subseteq DOMAIN config
            /\ ~environ.ICEBERG_URL.set /\ ~environ.OUTPUT_FILE.set
                  /\ ~environ.REQUEST_TIMEOUT.set
                 => Reasonable(config)
            /\ environ.ICEBERG_URL.set => config.iceberg_url = environ.ICEBERG_URL.value
            /\ environ.OUTPUT_FILE.set => config.output_file = environ.OUTPUT_FILE.value
            /\ environ.LOG_LEVEL.set => config.log_level = environ.LOG_LEVEL.value
            /\ config.request_timeout
                 = IF environ.REQUEST_TIMEOUT.set /\ IsInteger(environ.REQUEST_TIMEOUT.value)
                   THEN IntegerOf(environ.REQUEST_TIMEOUT.value)
                   ELSE 30

\* a URL that is not https and a timeout that is no integer
C21_Witness ==
    /\ Returned("get_config")
    /\ call.environ.ICEBERG_URL = SetTo(<<"h", "t", "t", "p", ":", "/", "/", "x">>)
    /\ call.environ.REQUEST_TIMEOUT = SetTo(<<"a", "b", "c">>)
    /\ ret.config.iceberg_url = <<"h", "t", "t", "p", ":", "/", "/", "x">>
    /\ ret.config.request_timeout = 30

(***************************************************************************)
(* The entry point                                                         *)
(***************************************************************************)
Documented == {"scrape", "info", "map", "animations", "api"}

\* the command function of the name of the command
CommandFunction(c) ==
    CASE c.command = "scrape" -> scrape_command(c.page, c.file)
      [] c.command = "info" -> info_command(c.file)
      [] c.command = "map" -> map_command(c.file)
      [] c.command = "animations" -> animations_command(c.file)
      [] c.command = "api" -> api_command(c.file)

\* C23: the entry point that main.py runs accepts each of the five
\* commands scrape, info, map, animations and api, runs the command
\* function of that name and returns the exit code of that function;
\* with api it generates the API endpoints
C23_Formula ==
    Returned("main") /\ call.command \in Documented =>
        /\ ret.kind = "return"
        /\ ret.value = CommandFunction(call).value
        /\ data_file = CommandFunction(call).file

====
